---- MODULE Spec2Model ----
(***************************************************************************)
(* A model of the GeoCam backend's device registry and signature           *)
(* verification engine.                                                    *)
(*                                                                         *)
(*   - Web_Backend/database.py + app.py: the PostgreSQL registry           *)
(*     (table geocam_devices) with the MAX(geocam_sequence)+1 allocator    *)
(*     and its bounded retry;                                              *)
(*   - Web_Backend/secure_backend.py: the SQLite registry (table           *)
(*     device_registry), the verification pipeline                         *)
(*     verify_secp256k1_signature and the audit log verification_logs.     *)
(*                                                                         *)
(* Every request is a process of its own: each opens its own database      *)
(* connection, so requests interleave at the granularity of one SQL        *)
(* statement.                                                              *)
(***************************************************************************)
EXTENDS Integers, Sequences, FiniteSets, TLC

\* ------------------------------------------------------------------ bounds
\* Number of concurrent /api/register-device requests against PostgreSQL.
NumProcs == 4
\* Largest number of devices already registered when the requests arrive.
MaxPrior == 1

\* Number of concurrent requests against secure_backend.py.
NumSecProcs == 2
\* Number of installation ids, key ids and device fingerprints of its clients.
NumIdentities == 2
\* How far the clock runs.
MaxClock == 1
\* Number of PostgreSQL registrations when both registries run side by side.
NumRegistryProcs == 2
\* Number of concurrent /api/verify-image and /api/devices requests.
NumAppProcs == 2
\* Requests in the runs that mix registrations and deletions.
NumDeleteProcs == 3

\* ------------------------------------------------------ program constants
\* secure_backend.py:609  datetime('now', '-1 day'), in seconds
OneDay == 86400
\* database.py:138  max_retries = 3
max_retries == 3

Procs == 1..NumProcs
\* One installation id for every device there can be.
InstIds == 1..(NumProcs + MaxPrior)

None == 0

VARIABLES
    \* -- PostgreSQL (database.py)
    geocam_devices,   \* committed rows of table geocam_devices
    pending,          \* pending[p]: the rows p's open transaction has inserted
    next_id,          \* the SERIAL sequence behind geocam_devices.id
    pc,               \* pc[p]: where request p stands
    inst,             \* inst[p]: the installation_id request p carries
    geocam_sequence,  \* geocam_sequence[p]: register_device's local variable
    attempt,          \* attempt[p]: register_device's loop variable
    result,           \* result[p]: what the request returned
    verification_history, \* rows of table verification_history, in insertion order
    \* -- SQLite and the process state of secure_backend.py
    SECP256K1_AVAILABLE, \* whether "import coincurve" succeeded at start-up
    device_registry,     \* rows of table device_registry
    verification_logs,   \* rows of table verification_logs, in insertion order
    clock,               \* what datetime.now() returns, in seconds
    spc,                 \* spc[q]: where secure request q stands
    req,                 \* req[q]: the request q carries
    local,               \* local[q]: the handler's local variables
    response             \* response[q]: the HTTP answer

regvars == <<geocam_devices, pending, next_id, pc, inst, geocam_sequence, attempt, result,
             verification_history>>

secvars == <<SECP256K1_AVAILABLE, device_registry, verification_logs, clock,
             spc, req, local, response>>

vars == <<geocam_devices, pending, next_id, pc, inst, geocam_sequence, attempt, result,
          verification_history,
          SECP256K1_AVAILABLE, device_registry, verification_logs, clock,
          spc, req, local, response>>

\* ----------------------------------------------------------------- helpers
RECURSIVE SetMax(_)
SetMax(S) == IF S = {} THEN 0
             ELSE LET x == CHOOSE y \in S : TRUE
                      m == SetMax(S \ {x})
                  IN IF x > m THEN x ELSE m

\* The computation as it would be if it left a value out.
NextSequence_skipping(table) == SetMax({r.geocam_sequence : r \in table}) + 2

\* SELECT COALESCE(MAX(geocam_sequence), 0) + 1 FROM geocam_devices
\* (READ COMMITTED: only committed rows are visible).
NextSequence(table) == SetMax({r.geocam_sequence : r \in table}) + 1

\* The check as it would be if it never found the device.
ExistingRows_finds_nothing(table, i) == {}

\* register_device: SELECT id FROM geocam_devices WHERE installation_id = i
ExistingRows(table, i) == {r \in table : r.installation_id = i}

\* get_device_by_installation_id: SELECT * FROM geocam_devices WHERE installation_id = i
get_device_by_installation_id(table, i) == {r \in table : r.installation_id = i}

\* installation_id VARCHAR(255) UNIQUE NOT NULL
InstallationIdTaken(table, i) == \E r \in table : r.installation_id = i

\* The column as it would be without its UNIQUE constraint.
SequenceTaken_unconstrained(table, s) == FALSE

\* geocam_sequence INTEGER UNIQUE
SequenceTaken(table, s) == \E r \in table : r.geocam_sequence = s

\* Rows other open transactions have inserted and not yet committed.
OthersPending(p) == UNION {pending[q] : q \in Procs \ {p}}

NoResult == [kind |-> "none"]

\* The table as it stands when the requests arrive: k devices registered one
\* after the other, so their sequences are 1..k.
PriorTable(k) ==
    {[id |-> j, installation_id |-> j, public_key_data |-> None, geocam_sequence |-> j,
      last_activity |-> 0] : j \in 1..k}

\* public_key_data of request p.  register_device stores it and nothing ever
\* reads or compares it, so every request is given a key of its own, unlike
\* any key stored before.
public_key_data(p) == p

\* Requests are numbered in the order they arrive.
ArrivesNext(p) == \A q \in Procs : q < p => pc[q] # "idle"

\* The statements compare installation_id for equality only, so a request
\* carries either an id seen before (in the table or in an earlier request) or
\* the next id nobody has used yet.
KnownOrNextInstIds ==
    {i \in InstIds :
        i <= 1 + SetMax({r.installation_id : r \in geocam_devices}
                        \cup {inst[q] : q \in Procs})}

\* An installation_id whose text contains "geocam_sequence"; the other ids
\* do not.
SequenceNamedInstId == NumProcs + MaxPrior + 1

\* str(insert_error) for a UNIQUE violation, as PostgreSQL words it:
\* 'duplicate key value violates unique constraint "<table>_<column>_key"
\*  DETAIL:  Key (<column>)=(<value>) already exists.'
insert_error(column, value) ==
    [duplicate |-> TRUE,
     mentions_geocam_sequence |->
         column = "geocam_sequence" \/ value = SequenceNamedInstId]

\* "duplicate key value violates unique constraint" in str(insert_error)
\* and "geocam_sequence" in str(insert_error)
TakenForSequenceConflict(e) == e.duplicate /\ e.mentions_geocam_sequence

\* ------------------------------------------------- register_device (database.py)
\* register_device_endpoint reads the request and register_device runs
\* "SELECT id FROM geocam_devices WHERE installation_id = %s".
SelectExistingOf(p, i) ==
    /\ inst' = [inst EXCEPT ![p] = i]
    /\ LET existing == ExistingRows(geocam_devices, i) IN
       IF existing # {}
       THEN /\ result' = [result EXCEPT ![p] =
                  [kind |-> "existing", id |-> (CHOOSE r \in existing : TRUE).id]]
            /\ pc' = [pc EXCEPT ![p] = "fetch"]
       ELSE /\ result' = result
            /\ pc' = [pc EXCEPT ![p] = "select_max"]
    /\ UNCHANGED <<geocam_devices, pending, next_id, geocam_sequence, attempt>>
    /\ UNCHANGED <<verification_history, secvars>>

SelectExisting(p) ==
    /\ pc[p] = "idle"
    /\ ArrivesNext(p)
    /\ \E i \in KnownOrNextInstIds : SelectExistingOf(p, i)

\* The same request from a client whose installation_id contains the text
\* "geocam_sequence".
SelectExistingNamed(p) ==
    /\ pc[p] = "idle"
    /\ ArrivesNext(p)
    /\ SelectExistingOf(p, SequenceNamedInstId)

\* "SELECT COALESCE(MAX(geocam_sequence), 0) + 1": the first computation of
\* the sequence, then the loop "for attempt in range(max_retries)" is entered.
SelectMax(p) ==
    /\ pc[p] = "select_max"
    /\ geocam_sequence' = [geocam_sequence EXCEPT ![p] = NextSequence(geocam_devices)]
    /\ attempt' = [attempt EXCEPT ![p] = 0]
    /\ pc' = [pc EXCEPT ![p] = "insert"]
    /\ UNCHANGED <<geocam_devices, pending, next_id, inst, result>>
    /\ UNCHANGED <<verification_history, secvars>>

\* The INSERT waits while a row of another open transaction holds one of its
\* unique keys.  PostgreSQL probes the unique indexes in the order they were
\* created: installation_id before geocam_sequence.
InsertBlocked(p) ==
    \/ InstallationIdTaken(OthersPending(p), inst[p])
    \/ /\ ~InstallationIdTaken(geocam_devices, inst[p])
       /\ SequenceTaken(OthersPending(p), geocam_sequence[p])

\* "INSERT INTO geocam_devices (...) VALUES (...) RETURNING id".  The SERIAL
\* default draws an id whether or not the insert succeeds.
Insert(p) ==
    /\ pc[p] = "insert"
    /\ ~InsertBlocked(p)
    /\ next_id' = next_id + 1
    /\ IF InstallationIdTaken(geocam_devices, inst[p])
       THEN IF TakenForSequenceConflict(insert_error("installation_id", inst[p]))
            THEN \* the text of the violation contains "geocam_sequence"
                 /\ pc' = [pc EXCEPT ![p] = "conflict_installation_id"]
                 /\ UNCHANGED <<pending, result>>
            ELSE \* raise insert_error, then the outer handler rolls back and
                 \* re-raises
                 /\ result' = [result EXCEPT ![p] =
                       [kind |-> "error", on |-> "installation_id"]]
                 /\ pc' = [pc EXCEPT ![p] = "done"]
                 /\ UNCHANGED pending
       ELSE IF SequenceTaken(geocam_devices, geocam_sequence[p])
       THEN /\ pc' = [pc EXCEPT ![p] = "conflict"]
            /\ UNCHANGED <<pending, result>>
       ELSE /\ pending' = [pending EXCEPT ![p] =
                  {[id |-> next_id, installation_id |-> inst[p],
                    public_key_data |-> public_key_data(p),
                    geocam_sequence |-> geocam_sequence[p], last_activity |-> clock]}]
            /\ pc' = [pc EXCEPT ![p] = "commit"]
            /\ UNCHANGED result
    /\ UNCHANGED <<geocam_devices, inst, geocam_sequence, attempt>>
    /\ UNCHANGED <<verification_history, secvars>>

\* "device_id = cursor.fetchone()['id']; db.commit(); return device_id"
Commit(p) ==
    /\ pc[p] = "commit"
    /\ geocam_devices' = geocam_devices \cup pending[p]
    /\ result' = [result EXCEPT ![p] =
          [kind |-> "created", id |-> (CHOOSE r \in pending[p] : TRUE).id]]
    /\ pending' = [pending EXCEPT ![p] = {}]
    /\ pc' = [pc EXCEPT ![p] = "fetch"]
    /\ UNCHANGED <<next_id, inst, geocam_sequence, attempt>>
    /\ UNCHANGED <<verification_history, secvars>>

\* The handler as it would be if it gave up at the first conflict.
LastAttempt_first(a) == a = 0

\* The handler as it would be if it never gave up.
LastAttempt_never(a) == FALSE

\* Does the handler of a sequence conflict give up after this attempt?
\* "if attempt == max_retries - 1: raise insert_error"
LastAttempt(a) == a = max_retries - 1

\* The handler of a sequence conflict: db.rollback(), a fresh cursor,
\* "SELECT COALESCE(MAX(geocam_sequence), 0) + 1" again, and on the last
\* attempt "raise insert_error".
Conflict(p) ==
    /\ pc[p] \in {"conflict", "conflict_installation_id"}
    /\ geocam_sequence' = [geocam_sequence EXCEPT ![p] = NextSequence(geocam_devices)]
    /\ IF LastAttempt(attempt[p])
       THEN /\ result' = [result EXCEPT ![p] =
                  [kind |-> "error",
                   on |-> IF pc[p] = "conflict" THEN "geocam_sequence"
                          ELSE "installation_id"]]
            /\ pc' = [pc EXCEPT ![p] = "done"]
            /\ UNCHANGED attempt
       ELSE /\ attempt' = [attempt EXCEPT ![p] = attempt[p] + 1]
            /\ pc' = [pc EXCEPT ![p] = "insert"]
            /\ UNCHANGED result
    /\ UNCHANGED <<geocam_devices, pending, next_id, inst>>
    /\ UNCHANGED <<verification_history, secvars>>

\* register_device_endpoint, after register_device returned device_id:
\* get_device_by_installation_id(installation_id) and the JSON answer with
\* device_info['geocam_sequence'].
Fetch(p) ==
    /\ pc[p] = "fetch"
    /\ LET found == get_device_by_installation_id(geocam_devices, inst[p]) IN
       IF found = {}
       THEN result' = [result EXCEPT ![p] = [kind |-> "error", on |-> "device_info"]]
       ELSE result' = [result EXCEPT ![p] =
               [kind |-> result[p].kind, id |-> result[p].id,
                geocam_sequence |-> (CHOOSE r \in found : TRUE).geocam_sequence]]
    /\ pc' = [pc EXCEPT ![p] = "done"]
    /\ UNCHANGED <<geocam_devices, pending, next_id, inst, geocam_sequence, attempt>>
    /\ UNCHANGED <<verification_history, secvars>>

\* register_device_endpoint when the read-back after register_device meets
\* a database that fails: a failed connect raises out of
\* get_device_by_installation_id, a failed SELECT makes it return None and
\* device_info['geocam_sequence'] raises TypeError; either way the handler
\* answers 500 'Failed to register device'.
FetchStorageFails(p) ==
    /\ pc[p] = "fetch"
    /\ \E storage \in {"connect_fails", "query_fails"} :
          result' = [result EXCEPT ![p] = [kind |-> "error", on |-> "device_info"]]
    /\ pc' = [pc EXCEPT ![p] = "done"]
    /\ UNCHANGED <<geocam_devices, pending, next_id, inst, geocam_sequence, attempt>>
    /\ UNCHANGED <<verification_history, secvars>>

\* delete_device_by_installation_id: one transaction that selects the device,
\* deletes its verification_history rows and the device row, and commits; a
\* device that is not there is answered with found = False.
Delete(p) ==
    /\ pc[p] = "idle"
    /\ ArrivesNext(p)
    /\ \E i \in KnownOrNextInstIds :
          LET device == get_device_by_installation_id(geocam_devices, i) IN
          /\ inst' = [inst EXCEPT ![p] = i]
          /\ IF device = {}
             THEN /\ result' = [result EXCEPT ![p] =
                        [kind |-> "deleted", found |-> FALSE, deleted |-> FALSE,
                         geocam_sequence |-> None]]
                  /\ UNCHANGED <<geocam_devices, verification_history>>
             ELSE LET d == CHOOSE r \in device : TRUE IN
                  /\ verification_history' =
                        SelectSeq(verification_history, LAMBDA h : h.device_id # d.id)
                  /\ geocam_devices' = geocam_devices \ device
                  /\ result' = [result EXCEPT ![p] =
                        [kind |-> "deleted", found |-> TRUE, deleted |-> TRUE,
                         geocam_sequence |-> d.geocam_sequence]]
    /\ pc' = [pc EXCEPT ![p] = "done"]
    /\ UNCHANGED <<pending, next_id, geocam_sequence, attempt>>
    /\ UNCHANGED secvars

RegisterStep(p) ==
    \/ SelectMax(p)
    \/ Insert(p)
    \/ Commit(p)
    \/ Conflict(p)
    \/ Fetch(p)

\* ======================================================= secure_backend.py
\* ------------------------------------------------------------ wire values
\* A base64 string is modelled by what base64.b64decode makes of it: whether
\* it decodes at all, how many bytes come out and what the first byte is.
Wire(ok, n, b) == [present |-> TRUE, b64ok |-> ok, len |-> n, first |-> b]

\* A field the request does not carry (request.form.get / data.get give None).
AbsentWire == [present |-> FALSE, b64ok |-> FALSE, len |-> 0, first |-> 0]

\* keyBase64 as clients may send it; register_device_secure stores it as is.
PubWires ==
    {Wire(TRUE, 33, 2), Wire(TRUE, 33, 3), Wire(TRUE, 33, 4), Wire(TRUE, 32, 2),
     Wire(FALSE, 0, 0)}
GoodKey == Wire(TRUE, 33, 2)

\* signature as clients may send it.
SigWires ==
    {Wire(TRUE, 64, 48), Wire(TRUE, 63, 48), Wire(TRUE, 65, 48), Wire(FALSE, 0, 0), AbsentWire}

\* hashlib.sha512(image).hexdigest(): 128 hexadecimal characters.
HexDigest(n, hex, of) == [len |-> n, hex |-> hex, image |-> of]
sha512_hexdigest(image) == HexDigest(128, TRUE, image)

\* The timestamp field: absent (None), the empty string, a string
\* datetime.fromisoformat rejects, an ISO time with a UTC offset ("...Z"), or a
\* naive ISO time t seconds on the server's clock.
Ts(kind, t) == [kind |-> kind, t |-> t]
TsAbsent == Ts("absent", 0)
TsEmpty == Ts("empty", 0)
TsGarbage == Ts("garbage", 0)

\* secure_backend.py:266  "if time_diff > 300"
ReplayWindow == 300

\* How far from now the naive timestamps of the requests lie.
TsOffsets == {0 - 301, 0 - 300, 0 - 299, 0, 299, 300, 301}
TsWires(now) ==
    {TsAbsent, TsEmpty, TsGarbage} \cup {Ts("aware", now)} \cup {Ts("naive", now + d) : d \in TsOffsets}

\* What coincurve.PublicKey(...) and public_key.verify(...) do with the decoded
\* bytes: the library's answer is an input of the model.
Primitive == {"true", "false", "raise"}

\* The difference as it would be without abs(): a check of the age alone.
Abs_signed(x) == x

\* abs(...) of "time_diff = abs((current_time - ts).total_seconds())"
Abs(x) == IF x < 0 THEN 0 - x ELSE x

NoError == "None"

\* ---------------------------------------- verify_secp256k1_signature (pure)
security_checks_init ==
    [signature_format |-> FALSE, public_key_format |-> FALSE, hash_format |-> FALSE,
     timestamp_valid |-> FALSE, signature_verified |-> FALSE]

Verdict(valid, error, checks) == [valid |-> valid, error |-> error, security_checks |-> checks]

\* "if timestamp:" is false for None and for the empty string.
Truthy(ts) == ts.kind \notin {"absent", "empty"}

\* Security Check 5 as it would be without its try/except: what the library
\* raises is not turned into a failed verdict.
CryptoStage_uncaught(checks, prim, avail) ==
    IF avail
    THEN IF prim = "false"
         THEN Verdict(FALSE, "Signature verification failed", checks)
         ELSE Verdict(TRUE, NoError, [checks EXCEPT !.signature_verified = TRUE])
    ELSE Verdict(TRUE, "Fallback verification used - install coincurve for security", checks)

\* Security Check 5: the coincurve branch, or the fallback when the library
\* could not be imported.
CryptoStage(checks, prim, avail) ==
    IF avail
    THEN IF prim = "raise"
         THEN Verdict(FALSE, "Cryptographic verification failed", checks)
         ELSE IF prim = "true"
         THEN Verdict(TRUE, NoError, [checks EXCEPT !.signature_verified = TRUE])
         ELSE Verdict(FALSE, "Signature verification failed", checks)
    ELSE Verdict(TRUE, "Fallback verification used - install coincurve for security", checks)

\* Security Check 4: timestamp validation, entered only "if timestamp:".
\* datetime.now() is naive, so subtracting a time that carries an offset raises
\* TypeError, which the handler reports like a parse error.
TimestampStage(checks, ts, now, prim, avail) ==
    IF Truthy(ts)
    THEN IF ts.kind = "garbage" \/ ts.kind = "aware"
         THEN Verdict(FALSE, "Invalid timestamp format", checks)
         ELSE IF Abs(now - ts.t) > ReplayWindow
         THEN Verdict(FALSE, "Signature timestamp too old (replay attack protection)", checks)
         ELSE CryptoStage([checks EXCEPT !.timestamp_valid = TRUE], prim, avail)
    ELSE CryptoStage(checks, prim, avail)

\* Security Check 3: the hash is 128 characters and bytes.fromhex accepts it.
HashStage(checks, data_hash, ts, now, prim, avail) ==
    IF data_hash.len # 128
    THEN Verdict(FALSE, "Invalid hash length", checks)
    ELSE IF ~data_hash.hex
    THEN Verdict(FALSE, "Invalid hash format", checks)
    ELSE TimestampStage([checks EXCEPT !.hash_format = TRUE], ts, now, prim, avail)

\* Security Check 2 as it would be if it did not look at the first byte.
PublicKeyStage_any_prefix(checks, public_key, data_hash, ts, now, prim, avail) ==
    IF ~public_key.b64ok
    THEN Verdict(FALSE, "Invalid public key encoding", checks)
    ELSE IF public_key.len # 33
    THEN Verdict(FALSE, "Invalid public key length", checks)
    ELSE HashStage([checks EXCEPT !.public_key_format = TRUE], data_hash, ts, now, prim, avail)

\* Security Check 2: the stored key decodes to 33 bytes starting 0x02 or 0x03.
PublicKeyStage(checks, public_key, data_hash, ts, now, prim, avail) ==
    IF ~public_key.b64ok
    THEN Verdict(FALSE, "Invalid public key encoding", checks)
    ELSE IF public_key.len # 33
    THEN Verdict(FALSE, "Invalid public key length", checks)
    ELSE IF public_key.first \notin {2, 3}
    THEN Verdict(FALSE, "Invalid compressed public key format", checks)
    ELSE HashStage([checks EXCEPT !.public_key_format = TRUE], data_hash, ts, now, prim, avail)

\* Security Check 1 and the rest of verify_secp256k1_signature.
verify_secp256k1_signature(signature, data_hash, public_key, ts, now, prim, avail) ==
    IF ~signature.b64ok
    THEN Verdict(FALSE, "Invalid signature encoding", security_checks_init)
    ELSE IF signature.len # 64
    THEN Verdict(FALSE, "Invalid signature length", security_checks_init)
    ELSE PublicKeyStage([security_checks_init EXCEPT !.signature_format = TRUE],
                        public_key, data_hash, ts, now, prim, avail)

\* ------------------------------------------------------------ the tables
SecProcs == 1..NumSecProcs
SecInstIds == 1..NumIdentities
KeyIds == 1..NumIdentities
Fingerprints == 1..NumIdentities
Images == {"image"}

\* What the request's image part can be: an image, or one of the faults the
\* handler answers before it verifies anything.
ImageInputs == Images \cup {"none", "bad_base64", "too_large"}

DeviceRow(id, i, k, wire, f, rt, t) ==
    [id |-> id, installation_id |-> i, public_key_id |-> k, public_key_base64 |-> wire,
     device_fingerprint |-> f, registration_timestamp |-> rt, last_activity |-> t]

\* The registry as it stands when the requests arrive: k devices with sound keys.
PriorRegistry(k) == {DeviceRow(j, j, j, GoodKey, j, 0, 0) : j \in 1..k}

\* id INTEGER PRIMARY KEY AUTOINCREMENT: one more than the largest id ever
\* used; no row is ever deleted from device_registry and a failed INSERT is
\* rolled back, so that is the largest id in the table.
NextRowId(table) == SetMax({r.id : r \in table}) + 1

\* The table as it would be if installation_id and public_key_id were not UNIQUE.
UniqueViolation_unconstrained(table, i, k) == FALSE

\* installation_id TEXT UNIQUE NOT NULL, public_key_id TEXT UNIQUE NOT NULL
UniqueViolation(table, i, k) ==
    \E r \in table : r.installation_id = i \/ r.public_key_id = k

\* The check as it would be if it looked at installation_id alone.
ExistingDevices_by_installation_only(table, k, i, f) == {r \in table : r.installation_id = i}

\* SELECT id, public_key_id, installation_id FROM device_registry
\* WHERE public_key_id = ? OR installation_id = ? OR device_fingerprint = ?
ExistingDevices(table, k, i, f) ==
    {r \in table : r.public_key_id = k \/ r.installation_id = i \/ r.device_fingerprint = f}

\* The update as it would be if it also reset the stored key.
TouchById_clearing_key(table, id, now) ==
    {IF r.id = id THEN [r EXCEPT !.last_activity = now, !.public_key_base64 = AbsentWire]
     ELSE r : r \in table}

\* UPDATE device_registry SET last_activity = ?, is_active = 1 WHERE id = ?
TouchById(table, id, now) ==
    {IF r.id = id THEN [r EXCEPT !.last_activity = now] ELSE r : r \in table}

\* UPDATE device_registry SET last_activity = ? WHERE public_key_id = ?
TouchByKeyId(table, k, now) ==
    {IF r.public_key_id = k THEN [r EXCEPT !.last_activity = now] ELSE r : r \in table}

\* The lookup as it would be if it did not compare the key id.
get_device_by_public_key_id_any(table, k) == table

\* get_device_by_public_key_id: SELECT * FROM device_registry
\* WHERE public_key_id = ? AND is_active = 1 (is_active is never cleared).
get_device_by_public_key_id(table, k) == {r \in table : r.public_key_id = k}

NoLocal == [none |-> TRUE]
NoRequest == [op |-> "none"]
NoResponse == [status |-> 0]

\* app.py at start-up: the table as it stands, no request received yet.
RegInit ==
    /\ \E k \in 0..MaxPrior :
          /\ geocam_devices = PriorTable(k)
          /\ next_id = k + 1
    /\ pending = [p \in Procs |-> {}]
    /\ pc = [p \in Procs |-> "idle"]
    /\ inst = [p \in Procs |-> None]
    /\ geocam_sequence = [p \in Procs |-> None]
    /\ attempt = [p \in Procs |-> 0]
    /\ result = [p \in Procs |-> NoResult]
    /\ verification_history = <<>>

\* secure_backend.py at start-up: coincurve imported or not, the tables as
\* init_database finds them, no request received yet.
SecInit ==
    /\ SECP256K1_AVAILABLE \in BOOLEAN
    /\ \E k \in 0..MaxPrior : device_registry = PriorRegistry(k)
    /\ verification_logs = <<>>
    /\ clock = 0
    /\ spc = [q \in SecProcs |-> "idle"]
    /\ req = [q \in SecProcs |-> NoRequest]
    /\ local = [q \in SecProcs |-> NoLocal]
    /\ response = [q \in SecProcs |-> NoResponse]

\* Each service taken alone: the other one's state is a fresh installation.
RegFresh ==
    /\ geocam_devices = {}
    /\ next_id = 1
    /\ pending = [p \in Procs |-> {}]
    /\ pc = [p \in Procs |-> "idle"]
    /\ inst = [p \in Procs |-> None]
    /\ geocam_sequence = [p \in Procs |-> None]
    /\ attempt = [p \in Procs |-> 0]
    /\ result = [p \in Procs |-> NoResult]
    /\ verification_history = <<>>

SecFresh ==
    /\ SECP256K1_AVAILABLE = TRUE
    /\ device_registry = {}
    /\ verification_logs = <<>>
    /\ clock = 0
    /\ spc = [q \in SecProcs |-> "idle"]
    /\ req = [q \in SecProcs |-> NoRequest]
    /\ local = [q \in SecProcs |-> NoLocal]
    /\ response = [q \in SecProcs |-> NoResponse]

Init == RegInit /\ SecFresh

\* Secure requests, too, are numbered in the order they arrive.
SecArrivesNext(q) == \A o \in SecProcs : o < q => spc[o] # "idle"

\* ------------------------------------------------ register_device_secure
\* register_device_secure_endpoint hands the JSON body to
\* register_device_secure, which checks the algorithm and runs the SELECT.
SecRegisterSelect(q) ==
    /\ spc[q] = "idle"
    /\ SecArrivesNext(q)
    /\ \E i \in SecInstIds, k \in KeyIds, f \in Fingerprints, w \in PubWires,
          alg \in {"secp256k1", "ed25519"}, rt \in 0..MaxClock :
          /\ req' = [req EXCEPT ![q] =
                [op |-> "register", installation_id |-> i, keyId |-> k, keyBase64 |-> w,
                 device_fingerprint |-> f, algorithm |-> alg,
                 registration_timestamp |-> rt]]
          /\ IF alg # "secp256k1"
             THEN \* raise ValueError('Only secp256k1 algorithm is supported')
                  /\ response' = [response EXCEPT ![q] = [status |-> 500]]
                  /\ spc' = [spc EXCEPT ![q] = "done"]
                  /\ UNCHANGED local
             ELSE LET existing == ExistingDevices(device_registry, k, i, f) IN
                  IF existing # {}
                  THEN \* cursor.fetchone(): one of the matching rows
                       /\ \E e \in existing : local' = [local EXCEPT ![q] = [existing_device |-> e]]
                       /\ spc' = [spc EXCEPT ![q] = "update"]
                       /\ UNCHANGED response
                  ELSE /\ spc' = [spc EXCEPT ![q] = "insert"]
                       /\ UNCHANGED <<local, response>>
    /\ UNCHANGED <<SECP256K1_AVAILABLE, device_registry, verification_logs, clock>>
    /\ UNCHANGED regvars

\* "Device already registered - update last activity and return success"
SecRegisterUpdate(q) ==
    /\ spc[q] = "update"
    /\ device_registry' = TouchById(device_registry, local[q].existing_device.id, clock)
    /\ response' = [response EXCEPT ![q] =
          [status |-> 201, success |-> TRUE,
           device_id |-> local[q].existing_device.id,
           public_key_id |-> local[q].existing_device.public_key_id,
           message |-> "Device already registered (updated activity)"]]
    /\ spc' = [spc EXCEPT ![q] = "done"]
    /\ UNCHANGED <<SECP256K1_AVAILABLE, verification_logs, clock, req, local>>
    /\ UNCHANGED regvars

\* "INSERT INTO device_registry (...)"; a UNIQUE violation raises, the handler
\* rolls back and re-raises, the endpoint answers 500.
SecRegisterInsert(q) ==
    /\ spc[q] = "insert"
    /\ IF UniqueViolation(device_registry, req[q].installation_id, req[q].keyId)
       THEN /\ response' = [response EXCEPT ![q] = [status |-> 500]]
            /\ UNCHANGED device_registry
       ELSE /\ device_registry' = device_registry \cup
                  {DeviceRow(NextRowId(device_registry), req[q].installation_id,
                             req[q].keyId, req[q].keyBase64, req[q].device_fingerprint,
                             req[q].registration_timestamp, clock)}
            /\ response' = [response EXCEPT ![q] =
                  [status |-> 201, success |-> TRUE,
                   device_id |-> NextRowId(device_registry),
                   public_key_id |-> req[q].keyId,
                   message |-> "Device registered successfully with public key only"]]
    /\ spc' = [spc EXCEPT ![q] = "done"]
    /\ UNCHANGED <<SECP256K1_AVAILABLE, verification_logs, clock, req, local>>
    /\ UNCHANGED regvars

\* ------------------------------------------------------ verify_image_secure
\* log_verification_attempt: INSERT INTO verification_logs (...)
log_verification_attempt(logs, k, image_hash, valid, now) ==
    Append(logs, [public_key_id |-> k, image_hash |-> image_hash,
                  signature_valid |-> valid, verification_timestamp |-> now])

\* The request is read, "if not signature or not public_key_id" answers 400,
\* then get_device_by_public_key_id; an unknown key answers 404.
VerifyLookup(q) ==
    /\ spc[q] = "idle"
    /\ SecArrivesNext(q)
    /\ \E sig \in SigWires, k \in KeyIds \cup {None} :
          /\ req' = [req EXCEPT ![q] = [op |-> "verify", signature |-> sig, public_key_id |-> k]]
          /\ IF ~sig.present \/ k = None
             THEN /\ response' = [response EXCEPT ![q] = [status |-> 400]]
                  /\ spc' = [spc EXCEPT ![q] = "done"]
                  /\ UNCHANGED local
             ELSE LET device_info == get_device_by_public_key_id(device_registry, k) IN
                  IF device_info = {}
                  THEN /\ response' = [response EXCEPT ![q] = [status |-> 404]]
                       /\ spc' = [spc EXCEPT ![q] = "done"]
                       /\ UNCHANGED local
                  ELSE /\ local' = [local EXCEPT ![q] =
                             [device_info |-> CHOOSE r \in device_info : TRUE]]
                       /\ spc' = [spc EXCEPT ![q] = "verify"]
                       /\ UNCHANGED response
    /\ UNCHANGED <<SECP256K1_AVAILABLE, device_registry, verification_logs, clock>>
    /\ UNCHANGED regvars

\* The image is hashed (or the request refused), the signature verified and
\* the attempt logged; a valid verdict goes on to the activity update.
VerifyAndLog(q) ==
    /\ spc[q] = "verify"
    /\ \E image \in ImageInputs, ts \in TsWires(clock), prim \in Primitive :
          IF image \notin Images
          THEN /\ response' = [response EXCEPT ![q] =
                     [status |-> IF image = "too_large" THEN 413 ELSE 400]]
               /\ spc' = [spc EXCEPT ![q] = "done"]
               /\ UNCHANGED <<verification_logs, local, req>>
          ELSE LET image_hash == sha512_hexdigest(image)
                   verification_result ==
                       verify_secp256k1_signature(req[q].signature, image_hash,
                           local[q].device_info.public_key_base64, ts, clock, prim,
                           SECP256K1_AVAILABLE)
               IN  /\ req' = [req EXCEPT ![q] =
                         [op |-> "verify", signature |-> req[q].signature,
                          public_key_id |-> req[q].public_key_id, timestamp |-> ts,
                          primitive |-> prim]]
                   /\ verification_logs' = log_verification_attempt(verification_logs,
                         req[q].public_key_id, image_hash, verification_result.valid, clock)
                   /\ local' = [local EXCEPT ![q] =
                         [device_info |-> local[q].device_info,
                          verification_result |-> verification_result]]
                   /\ IF verification_result.valid
                      THEN /\ spc' = [spc EXCEPT ![q] = "activity"]
                           /\ UNCHANGED response
                      ELSE /\ spc' = [spc EXCEPT ![q] = "done"]
                           /\ response' = [response EXCEPT ![q] =
                                 [status |-> 200, signature_valid |-> FALSE,
                                  security_checks |-> verification_result.security_checks,
                                  error_details |-> verification_result.error]]
    /\ UNCHANGED <<SECP256K1_AVAILABLE, device_registry, clock>>
    /\ UNCHANGED regvars

\* "Update device last activity only if verification succeeds", then the answer.
VerifyActivity(q) ==
    /\ spc[q] = "activity"
    /\ device_registry' = TouchByKeyId(device_registry, req[q].public_key_id, clock)
    /\ response' = [response EXCEPT ![q] =
          [status |-> 200, signature_valid |-> TRUE,
           security_checks |-> local[q].verification_result.security_checks]]
    /\ spc' = [spc EXCEPT ![q] = "done"]
    /\ UNCHANGED <<SECP256K1_AVAILABLE, verification_logs, clock, req, local>>
    /\ UNCHANGED regvars

\* The handler as it would be without the try/except around the update.
ActivityFailureCaught_uncaught(answer) == [status |-> 500]

\* "except Exception as e: logger.warning(...)": the failure is logged and the
\* handler goes on to the answer it had prepared.
ActivityFailureCaught(answer) == answer

\* The same step when sqlite3.connect, the UPDATE or the commit raises.
VerifyActivityFails(q) ==
    /\ spc[q] = "activity"
    /\ \E storage \in {"connect_fails", "query_fails"} :
          response' = [response EXCEPT ![q] =
              ActivityFailureCaught(
                  [status |-> 200, signature_valid |-> TRUE,
                   security_checks |-> local[q].verification_result.security_checks])]
    /\ spc' = [spc EXCEPT ![q] = "done"]
    /\ UNCHANGED <<SECP256K1_AVAILABLE, device_registry, verification_logs, clock, req,
                   local>>
    /\ UNCHANGED regvars

\* Time passes.
Tick ==
    /\ clock < MaxClock
    /\ clock' = clock + 1
    /\ UNCHANGED <<SECP256K1_AVAILABLE, device_registry, verification_logs, spc, req,
                   local, response>>
    /\ UNCHANGED regvars

\* ------------------------------------------ get_devices_secure (secure_backend.py)
\* SELECT ... FROM device_registry ORDER BY registration_timestamp DESC: the
\* rows, each once, in an order in which registration_timestamp never
\* increases; rows with equal timestamps come in an order SQL leaves open.
OrderByRegistrationDesc(table) ==
    {s \in [1..Cardinality(table) -> table] :
        /\ \A a, b \in 1..Cardinality(table) : a # b => s[a] # s[b]
        /\ \A a, b \in 1..Cardinality(table) :
              a < b => s[a].registration_timestamp >= s[b].registration_timestamp}

GetDevicesSecure(q) ==
    /\ spc[q] = "idle"
    /\ SecArrivesNext(q)
    /\ req' = [req EXCEPT ![q] = [op |-> "devices"]]
    /\ \E devices \in OrderByRegistrationDesc(device_registry) :
          response' = [response EXCEPT ![q] =
              [status |-> 200, success |-> TRUE, devices |-> devices,
               total_count |-> Len(devices)]]
    /\ spc' = [spc EXCEPT ![q] = "done"]
    /\ UNCHANGED <<SECP256K1_AVAILABLE, device_registry, verification_logs, clock, local>>
    /\ UNCHANGED regvars

\* ------------------------------------- get_verification_stats (secure_backend.py)
\* SELECT COUNT(*) FROM verification_logs WHERE signature_valid = 1
CountValid(logs) == Cardinality({n \in 1..Len(logs) : logs[n].signature_valid})

\* SELECT COUNT(*) FROM verification_logs
\* WHERE verification_timestamp > datetime('now', '-1 day')
CountRecent(logs, now) ==
    Cardinality({n \in 1..Len(logs) : logs[n].verification_timestamp > now - OneDay})

\* round(x, 2) for x = num / den >= 0: a decimal with two places, held as its
\* number of hundredths (round half to even).
round2(num, den) ==
    LET q == (num * 100) \div den
        r == (num * 100) % den
    IN  IF 2 * r > den \/ (2 * r = den /\ q % 2 = 1) THEN q + 1 ELSE q

\* round((valid_verifications / total_verifications * 100), 2)
\* if total_verifications > 0 else 0, in hundredths.
success_rate(valid, total) == IF total > 0 THEN round2(valid * 100, total) ELSE 0

\* The four SELECTs run one after the other on a connection that holds no
\* transaction open, so each one sees the table as it is when it runs.
StatsTotal(q) ==
    /\ spc[q] = "idle"
    /\ SecArrivesNext(q)
    /\ req' = [req EXCEPT ![q] = [op |-> "stats"]]
    /\ local' = [local EXCEPT ![q] = [total_verifications |-> Len(verification_logs)]]
    /\ spc' = [spc EXCEPT ![q] = "stats_valid"]
    /\ UNCHANGED <<SECP256K1_AVAILABLE, device_registry, verification_logs, clock, response>>
    /\ UNCHANGED regvars

StatsValid(q) ==
    /\ spc[q] = "stats_valid"
    /\ local' = [local EXCEPT ![q] =
          [total_verifications |-> local[q].total_verifications,
           valid_verifications |-> CountValid(verification_logs)]]
    /\ spc' = [spc EXCEPT ![q] = "stats_recent"]
    /\ UNCHANGED <<SECP256K1_AVAILABLE, device_registry, verification_logs, clock, req,
                   response>>
    /\ UNCHANGED regvars

StatsRecent(q) ==
    /\ spc[q] = "stats_recent"
    /\ local' = [local EXCEPT ![q] =
          [total_verifications |-> local[q].total_verifications,
           valid_verifications |-> local[q].valid_verifications,
           recent_verifications |-> CountRecent(verification_logs, clock)]]
    /\ spc' = [spc EXCEPT ![q] = "stats_active"]
    /\ UNCHANGED <<SECP256K1_AVAILABLE, device_registry, verification_logs, clock, req,
                   response>>
    /\ UNCHANGED regvars

\* SELECT COUNT(*) FROM device_registry WHERE is_active = 1 (is_active is
\* never cleared), then the JSON answer.
StatsActive(q) ==
    /\ spc[q] = "stats_active"
    /\ response' = [response EXCEPT ![q] =
          [status |-> 200, success |-> TRUE,
           stats |->
              [total_verifications |-> local[q].total_verifications,
               valid_verifications |-> local[q].valid_verifications,
               invalid_verifications |->
                   local[q].total_verifications - local[q].valid_verifications,
               recent_verifications |-> local[q].recent_verifications,
               active_devices |-> Cardinality(device_registry),
               success_rate |-> success_rate(local[q].valid_verifications,
                                             local[q].total_verifications)]]]
    /\ spc' = [spc EXCEPT ![q] = "done"]
    /\ UNCHANGED <<SECP256K1_AVAILABLE, device_registry, verification_logs, clock, req,
                   local>>
    /\ UNCHANGED regvars

\* ============================================ app.py: /api/verify-image, /api/devices
AppProcs == 1..NumAppProcs

\* What a database call meets: the server answers, psycopg2.connect fails in
\* Database(), or the connection is made and the statement fails.
Storage == {"up", "connect_fails", "query_fails"}

\* What the steganography service answers: a status other than 200, no
\* answer at all, success false, or a decoded image with the signature found
\* invalid or valid.
StegOutcomes == {"http_error", "unreachable", "undecoded", "invalid", "valid"}

\* update_device_activity: UPDATE geocam_devices SET last_activity =
\* CURRENT_TIMESTAMP WHERE installation_id = %s
update_device_activity(table, i, now) ==
    {IF r.installation_id = i THEN [r EXCEPT !.last_activity = now] ELSE r : r \in table}

\* log_verification: INSERT INTO verification_history (...)
log_verification(history, device_id, valid) ==
    Append(history, [device_id |-> device_id, verification_result |-> valid])

\* verify_image's state: the HTTP status once it has answered, its locals
\* device_info and device_id, what the service said, and the database calls
\* that failed on the way.
VerifyImageResult(status, device_info, device_id, steg, faults) ==
    [kind |-> "verify_image", status |-> status, device_info |-> device_info,
     device_id |-> device_id, steg |-> steg, valid |-> steg = "valid", faults |-> faults]

\* The request is read; with an installation_id, get_device_by_installation_id
\* looks the device up.  Database() is called outside its try, so a failed
\* connect reaches verify_image's handler (500); a failed SELECT is caught
\* inside and None is returned.
VerifyImageLookup(p) ==
    /\ pc[p] = "idle"
    /\ ArrivesNext(p)
    /\ \E image \in {"image", "none"}, i \in KnownOrNextInstIds \cup {None}, storage \in Storage :
          /\ inst' = [inst EXCEPT ![p] = i]
          /\ IF image = "none"
             THEN /\ result' = [result EXCEPT ![p] = VerifyImageResult(400, {}, None, "none", {})]
                  /\ pc' = [pc EXCEPT ![p] = "done"]
             ELSE IF i = None
             THEN /\ result' = [result EXCEPT ![p] = VerifyImageResult(0, {}, None, "none", {})]
                  /\ pc' = [pc EXCEPT ![p] = "steg"]
             ELSE IF storage = "connect_fails"
             THEN /\ result' = [result EXCEPT ![p] =
                        VerifyImageResult(500, {}, None, "none", {"lookup"})]
                  /\ pc' = [pc EXCEPT ![p] = "done"]
             ELSE IF storage = "query_fails"
             THEN /\ result' = [result EXCEPT ![p] =
                        VerifyImageResult(0, {}, None, "none", {"lookup"})]
                  /\ pc' = [pc EXCEPT ![p] = "steg"]
             ELSE /\ result' = [result EXCEPT ![p] =
                        VerifyImageResult(0, get_device_by_installation_id(geocam_devices, i),
                                          None, "none", {})]
                  /\ pc' = [pc EXCEPT ![p] = "steg"]
    /\ UNCHANGED <<geocam_devices, pending, next_id, geocam_sequence, attempt,
                   verification_history, secvars>>

\* requests.post to the steganography service and the reading of its answer.
VerifyImageService(p) ==
    /\ pc[p] = "steg"
    /\ \E steg \in StegOutcomes :
          IF steg \in {"http_error", "unreachable"}
          THEN /\ result' = [result EXCEPT ![p] =
                     VerifyImageResult(500, result[p].device_info, None, steg, result[p].faults)]
               /\ pc' = [pc EXCEPT ![p] = "done"]
          ELSE /\ result' = [result EXCEPT ![p] =
                     VerifyImageResult(0, result[p].device_info, None, steg, result[p].faults)]
               /\ pc' = [pc EXCEPT ![p] = "activity"]
    /\ UNCHANGED <<geocam_devices, pending, next_id, inst, geocam_sequence, attempt,
                   verification_history, secvars>>

\* "if installation_id and device_info: update_device_activity(installation_id);
\* device_id = device_info['id']".  A failed connect raises before device_id
\* is set and is caught with a warning; a failed UPDATE is caught inside
\* update_device_activity.
VerifyImageActivity(p) ==
    /\ pc[p] = "activity"
    /\ \E storage \in Storage :
          IF inst[p] # None /\ result[p].device_info # {}
          THEN LET id == (CHOOSE r \in result[p].device_info : TRUE).id IN
               /\ geocam_devices' =
                     IF storage = "up"
                     THEN update_device_activity(geocam_devices, inst[p], clock)
                     ELSE geocam_devices
               /\ result' = [result EXCEPT ![p] =
                     VerifyImageResult(0, result[p].device_info,
                         IF storage = "connect_fails" THEN None ELSE id,
                         result[p].steg,
                         IF storage = "up" THEN result[p].faults
                         ELSE result[p].faults \cup {"activity"})]
          ELSE /\ storage = "up"
               /\ UNCHANGED <<geocam_devices, result>>
    /\ pc' = [pc EXCEPT ![p] = "log"]
    /\ UNCHANGED <<pending, next_id, inst, geocam_sequence, attempt,
                   verification_history, secvars>>

\* log_verification(...) inside try/except, then the answer.  A failed
\* connect is caught by verify_image with a warning, a failed INSERT inside
\* log_verification.
VerifyImageLog(p) ==
    /\ pc[p] = "log"
    /\ \E storage \in Storage :
          /\ verification_history' =
                IF storage = "up"
                THEN log_verification(verification_history, result[p].device_id, result[p].valid)
                ELSE verification_history
          /\ result' = [result EXCEPT ![p] =
                VerifyImageResult(200, result[p].device_info, result[p].device_id,
                    result[p].steg,
                    IF storage = "up" THEN result[p].faults ELSE result[p].faults \cup {"log"})]
    /\ pc' = [pc EXCEPT ![p] = "done"]
    /\ UNCHANGED <<geocam_devices, pending, next_id, inst, geocam_sequence, attempt, secvars>>

\* get_all_devices: SELECT ... FROM geocam_devices ORDER BY geocam_sequence ASC
RECURSIVE get_all_devices(_)
get_all_devices(table) ==
    IF table = {} THEN <<>>
    ELSE LET first == CHOOSE r \in table :
                         \A o \in table : r.geocam_sequence <= o.geocam_sequence
         IN  <<first>> \o get_all_devices(table \ {first})

\* get_devices: get_all_devices() and the JSON list.  A failed connect
\* raises out of get_all_devices (500); a failed SELECT is caught inside it
\* and [] is returned.
GetDevices(p) ==
    /\ pc[p] = "idle"
    /\ ArrivesNext(p)
    /\ \E storage \in Storage :
          result' = [result EXCEPT ![p] =
              [kind |-> "devices",
               status |-> IF storage = "connect_fails" THEN 500 ELSE 200,
               devices |-> IF storage = "up" THEN get_all_devices(geocam_devices) ELSE <<>>,
               faults |-> IF storage = "up" THEN {} ELSE {"list"}]]
    /\ pc' = [pc EXCEPT ![p] = "done"]
    /\ UNCHANGED <<geocam_devices, pending, next_id, inst, geocam_sequence, attempt,
                   verification_history, secvars>>

\* app.py get_verification_stats: get_all_devices() and counters that are
\* written as literals; the answer's latest_registration is read from
\* registration_date, a column the rows here do not carry.  A failed connect
\* raises out of get_all_devices (500); a failed SELECT gives [].
GetVerificationStats(p) ==
    /\ pc[p] = "idle"
    /\ ArrivesNext(p)
    /\ \E storage \in Storage :
          LET devices == IF storage = "up" THEN get_all_devices(geocam_devices) ELSE <<>> IN
          result' = [result EXCEPT ![p] =
              [kind |-> "stats",
               status |-> IF storage = "connect_fails" THEN 500 ELSE 200,
               faults |-> IF storage = "up" THEN {} ELSE {"list"},
               stats |-> [total_devices |-> Len(devices),
                          active_devices |-> Len(devices),
                          total_verifications |-> 0,
                          valid_verifications |-> 0,
                          invalid_verifications |-> 0,
                          recent_verifications |-> 0,
                          success_rate |-> 0]]]
    /\ pc' = [pc EXCEPT ![p] = "done"]
    /\ UNCHANGED <<geocam_devices, pending, next_id, inst, geocam_sequence, attempt,
                   verification_history, secvars>>

\* ------------------------------------------------------------------ specs
\* The PostgreSQL registry behind app.py.
Next ==
    \E p \in Procs :
        \/ SelectExisting(p)
        \/ SelectMax(p)
        \/ Insert(p)
        \/ Commit(p)
        \/ Conflict(p)
        \/ Fetch(p)

Spec == Init /\ [][Next]_vars

\* The SQLite registry, the verification engine and the audit log of
\* secure_backend.py.
SecNext ==
    \/ \E q \in SecProcs :
          \/ SecRegisterSelect(q)
          \/ SecRegisterUpdate(q)
          \/ SecRegisterInsert(q)
          \/ VerifyLookup(q)
          \/ VerifyAndLog(q)
          \/ VerifyActivity(q)
    \/ Tick

SecSpecInit == SecInit /\ RegFresh

SecSpec == SecSpecInit /\ [][SecNext]_vars

\* verify_secp256k1_signature called on its own, as a function of its
\* arguments: any signature, any hash string, any key string.
HashInputs ==
    {HexDigest(128, TRUE, "any"), HexDigest(128, FALSE, "any"), HexDigest(127, TRUE, "any"),
     HexDigest(129, TRUE, "any"), HexDigest(0, TRUE, "any")}

CallVerifier(q) ==
    /\ spc[q] = "idle"
    /\ SecArrivesNext(q)
    /\ \E signature \in SigWires, data_hash \in HashInputs, public_key \in PubWires,
          prim \in Primitive :
          /\ req' = [req EXCEPT ![q] =
                [op |-> "call", signature |-> signature, data_hash |-> data_hash,
                 public_key |-> public_key, timestamp |-> Ts("naive", clock),
                 primitive |-> prim]]
          /\ local' = [local EXCEPT ![q] =
                [verification_result |->
                    verify_secp256k1_signature(signature, data_hash, public_key,
                        Ts("naive", clock), clock, prim, SECP256K1_AVAILABLE)]]
    /\ spc' = [spc EXCEPT ![q] = "done"]
    /\ UNCHANGED <<SECP256K1_AVAILABLE, device_registry, verification_logs, clock, response>>
    /\ UNCHANGED regvars

CodecNext == \E q \in SecProcs : CallVerifier(q)

CodecSpec == SecSpecInit /\ [][CodecNext]_vars

\* Registrations and listings against secure_backend.py.
ListNext ==
    \/ \E q \in SecProcs :
          \/ SecRegisterSelect(q)
          \/ SecRegisterUpdate(q)
          \/ SecRegisterInsert(q)
          \/ GetDevicesSecure(q)
    \/ Tick

ListSpec == SecSpecInit /\ [][ListNext]_vars

\* Verifications against a device_registry whose activity update can fail.
ActivityFaultNext ==
    \/ \E q \in SecProcs :
          \/ VerifyLookup(q)
          \/ VerifyAndLog(q)
          \/ VerifyActivity(q)
          \/ VerifyActivityFails(q)
    \/ Tick

ActivityFaultSpec == SecSpecInit /\ [][ActivityFaultNext]_vars

\* Verifications and statistics requests against secure_backend.py, started
\* on the tables an earlier run left: at most MaxPrior devices and, for a
\* device that is there, at most one logged attempt.
PriorLogs(registry) ==
    {<<>>} \cup
    {log_verification_attempt(<<>>, r.public_key_id, sha512_hexdigest("image"), v, 0) :
        r \in registry, v \in BOOLEAN}

StatsInit ==
    /\ SECP256K1_AVAILABLE \in BOOLEAN
    /\ \E k \in 0..MaxPrior : device_registry = PriorRegistry(k)
    /\ verification_logs \in PriorLogs(device_registry)
    /\ clock = 0
    /\ spc = [q \in SecProcs |-> "idle"]
    /\ req = [q \in SecProcs |-> NoRequest]
    /\ local = [q \in SecProcs |-> NoLocal]
    /\ response = [q \in SecProcs |-> NoResponse]
    /\ RegFresh

StatsNext ==
    \/ \E q \in SecProcs :
          \/ VerifyLookup(q)
          \/ VerifyAndLog(q)
          \/ VerifyActivity(q)
          \/ StatsTotal(q)
          \/ StatsValid(q)
          \/ StatsRecent(q)
          \/ StatsActive(q)
    \/ Tick

StatsSpec == StatsInit /\ [][StatsNext]_vars

\* Verification and listing through app.py, against the PostgreSQL tables.
AppNext ==
    \/ \E p \in AppProcs :
          \/ VerifyImageLookup(p)
          \/ VerifyImageService(p)
          \/ VerifyImageActivity(p)
          \/ VerifyImageLog(p)
          \/ GetDevices(p)
          \/ GetVerificationStats(p)
    \/ Tick

AppSpec == Init /\ [][AppNext]_vars

\* Both registries side by side: registrations against PostgreSQL and against
\* SQLite, each with the devices it already holds.  The two services share no
\* state, so their steps commute; the SQLite requests are taken up once the
\* PostgreSQL ones have returned, which leaves out no state of either table.
RegistryProcs == 1..NumRegistryProcs

PostgresReturned == \A p \in RegistryProcs : pc[p] = "done"

RegistryNext ==
    \/ \E p \in RegistryProcs :
          \/ SelectExisting(p)
          \/ SelectMax(p)
          \/ Insert(p)
          \/ Commit(p)
          \/ Conflict(p)
          \/ Fetch(p)
    \/ /\ PostgresReturned
       /\ \E q \in SecProcs :
             \/ SecRegisterSelect(q)
             \/ SecRegisterUpdate(q)
             \/ SecRegisterInsert(q)

RegistryInit == RegInit /\ SecInit

RegistrySpec == RegistryInit /\ [][RegistryNext]_vars

\* Registrations and administrative deletions against the PostgreSQL table.
DeleteProcs == 1..NumDeleteProcs

DeleteNext ==
    \E p \in DeleteProcs :
        \/ SelectExisting(p)
        \/ SelectMax(p)
        \/ Insert(p)
        \/ Commit(p)
        \/ Conflict(p)
        \/ Fetch(p)
        \/ Delete(p)

DeleteSpec == Init /\ [][DeleteNext]_vars

\* Registrations and listings against app.py.
PostgresListNext ==
    \E p \in DeleteProcs :
        \/ SelectExisting(p)
        \/ SelectMax(p)
        \/ Insert(p)
        \/ Commit(p)
        \/ Conflict(p)
        \/ Fetch(p)
        \/ GetDevices(p)

PostgresListSpec == Init /\ [][PostgresListNext]_vars

\* Verifications through app.py next to administrative deletions.
AuditNext ==
    \/ \E p \in AppProcs :
          \/ VerifyImageLookup(p)
          \/ VerifyImageService(p)
          \/ VerifyImageActivity(p)
          \/ VerifyImageLog(p)
          \/ Delete(p)
    \/ Tick

AuditSpec == Init /\ [][AuditNext]_vars

\* Registrations among which some come from clients whose installation_id
\* contains the text "geocam_sequence".
NamedIdNext ==
    \E p \in DeleteProcs :
        \/ SelectExisting(p)
        \/ SelectExistingNamed(p)
        \/ SelectMax(p)
        \/ Insert(p)
        \/ Commit(p)
        \/ Conflict(p)
        \/ Fetch(p)

NamedIdSpec == Init /\ [][NamedIdNext]_vars

\* Registrations against a PostgreSQL server that can fail between the
\* commit and the read-back.
RegisterFaultNext ==
    \E p \in RegistryProcs :
        \/ SelectExisting(p)
        \/ SelectMax(p)
        \/ Insert(p)
        \/ Commit(p)
        \/ Conflict(p)
        \/ Fetch(p)
        \/ FetchStorageFails(p)

RegisterFaultSpec == Init /\ [][RegisterFaultNext]_vars

\* ------------------------------------------------------------ vocabulary
Started(p) == pc[p] # "idle"
Finished(p) == pc[p] = "done"
Created(p) == result[p].kind = "created"
Succeeded(p) == result[p].kind \in {"created", "existing"}
StartedProcs == {p \in Procs : Started(p)}
CreatedProcs == {p \in Procs : Created(p)}
Quiescent == \A p \in Procs : pc[p] \in {"idle", "done"}

\* The rows that were in the table before any of the requests.
PriorRows == {r \in geocam_devices : \A p \in CreatedProcs : r.installation_id # inst[p]}
prior_max == SetMax({r.geocam_sequence : r \in PriorRows})

\* The sequences the requests committed.
CreatedSeqs == {geocam_sequence[p] : p \in CreatedProcs}

\* Every request so far is a first-time registration of an identity of its own.
FirstTimeDistinct ==
    /\ \A p, q \in StartedProcs : p # q => inst[p] # inst[q]
    /\ \A p \in StartedProcs : \A r \in PriorRows : r.installation_id # inst[p]

\* ------------------------------------------------------------------- C1
\* C1: two registrations that computed the same sequence value never both
\* commit a record with it: any two requests that created a record hold
\* different sequence values.
C1_NoSharedSequenceCommit ==
    \A p, q \in Procs :
        (p # q /\ Created(p) /\ Created(q)) => geocam_sequence[p] # geocam_sequence[q]

\* One request committed sequence s while another, which computed the same
\* s, had its INSERT refused.
C1_Witness ==
    \E p, q \in Procs :
        /\ p # q
        /\ Created(p)
        /\ pc[q] = "conflict"
        /\ geocam_sequence[q] = geocam_sequence[p]

C3_AllSucceedContiguous ==
    (Quiescent /\ FirstTimeDistinct) =>
        /\ StartedProcs = CreatedProcs
        /\ CreatedSeqs = (prior_max + 1)..(prior_max + Cardinality(StartedProcs))

\* C3 amended: the registrations that succeed hold pairwise distinct
\* sequences forming prior_max+1 .. prior_max+k, k the number that succeeded;
\* all N succeed when N is at most max_retries.
C3_SucceededContiguous ==
    (Quiescent /\ FirstTimeDistinct) =>
        /\ CreatedSeqs = (prior_max + 1)..(prior_max + Cardinality(CreatedProcs))
        /\ Cardinality(CreatedSeqs) = Cardinality(CreatedProcs)
        /\ Cardinality(StartedProcs) <= max_retries => StartedProcs = CreatedProcs

\* Three racing first-time registrations on top of an existing device all
\* succeeded, one of them only on its third attempt.
C3_Witness ==
    /\ Quiescent
    /\ FirstTimeDistinct
    /\ prior_max > 0
    /\ Cardinality(StartedProcs) = max_retries
    /\ StartedProcs = CreatedProcs
    /\ \E p \in Procs : attempt[p] = max_retries - 1

\* ------------------------------------------------------------------- C4
\* The loop index stays within range(max_retries), and an error on the
\* sequence is raised from the last attempt only.
AttemptBounded ==
    \A p \in Procs :
        /\ attempt[p] \in 0..(max_retries - 1)
        /\ (result[p].kind = "error" /\ result[p].on = "geocam_sequence")
              => attempt[p] = max_retries - 1

\* What the handler of a sequence conflict does in one step of request p.
ConflictHandled(p) ==
    (pc[p] = "conflict" /\ pc'[p] # "conflict") =>
        /\ geocam_sequence'[p] = NextSequence(geocam_devices)
        /\ geocam_devices' = geocam_devices
        /\ pending'[p] = {}
        /\ IF attempt[p] = max_retries - 1
           THEN pc'[p] = "done" /\ result'[p].kind = "error"
           ELSE pc'[p] = "insert" /\ attempt'[p] = attempt[p] + 1

\* Each INSERT is a new attempt: between two INSERTs of one request the loop
\* index grows.
OneInsertPerAttempt(p) ==
    (pc[p] = "insert" /\ pc'[p] # "insert") => pc'[p] \in {"commit", "conflict", "done"}

\* A call that has not returned can take its next step, or its INSERT waits
\* for a transaction that can commit: no call is ever stuck.  Together with
\* the bound on the attempts this is termination, each step moving the call
\* forward in register_device.
NeverStuck ==
    \A p \in Procs :
        (Started(p) /\ ~Finished(p)) =>
            \/ ENABLED RegisterStep(p)
            \/ /\ pc[p] = "insert"
               /\ \E q \in Procs \ {p} : pending[q] # {} /\ ENABLED Commit(q)

\* C4: a Register call performs at most 3 insert attempts, after each
\* sequence violation it rolls back and recomputes MAX(sequence)+1, the third
\* violation surfaces an error, and a call that was started is never stuck
\* short of returning.
C4_BoundedRetryTerminates ==
    /\ [](AttemptBounded /\ NeverStuck)
    /\ [][\A p \in Procs : ConflictHandled(p) /\ OneInsertPerAttempt(p)]_vars

\* A request gave up after its third INSERT hit a sequence violation.
C4_Witness ==
    \E p \in Procs :
        /\ Finished(p)
        /\ result[p].kind = "error"
        /\ result[p].on = "geocam_sequence"
        /\ attempt[p] = max_retries - 1

\* ------------------------------------------------------------------- C6
\* Two finished calls for one installation_id: the one that found the device
\* reports the record and the sequence of the other.
SameDeviceSameSequence ==
    \A p, q \in Procs :
        (/\ p # q
         /\ Finished(p) /\ Finished(q)
         /\ inst[p] = inst[q]
         /\ Succeeded(p)
         /\ result[q].kind = "existing")
        => /\ result[q].id = result[p].id
           /\ result[q].geocam_sequence = result[p].geocam_sequence

\* A call that arrives after a call for the same installation_id has
\* returned with success takes the "already registered" path.
SecondCallFindsDevice(q) ==
    (/\ pc[q] = "idle"
     /\ pc'[q] # "idle"
     /\ \E p \in Procs : Finished(p) /\ Succeeded(p) /\ inst[p] = inst'[q])
    => result'[q].kind = "existing"

\* A call on the "already registered" path leaves the table as it is.
SecondCallChangesNothing(q) ==
    (pc[q] # pc'[q] /\ result'[q].kind = "existing") => geocam_devices' = geocam_devices

IsRegister(q) == req[q].op = "register"
IsVerify(q) == req[q].op = "verify"
Returned(q) == spc[q] = "done"
HasVerdict(q) == IsVerify(q) /\ spc[q] \in {"activity", "done"} /\ local[q] # NoLocal
                    /\ "verification_result" \in DOMAIN local[q]
verdict(q) == local[q].verification_result

\* The answer of the "already registered" branch: the caller is told that
\* nothing was created.
AlreadyRegistered(r) ==
    /\ r.status = 201
    /\ r.success
    /\ r.message = "Device already registered (updated activity)"

\* ------------------------------------------------------------------- C5
\* A well-formed registration that arrives while a row matches its
\* public_key_id, its installation_id or its device_fingerprint takes the
\* "already registered" branch with one of the matching rows, and inserts
\* nothing.
MatchTakesExistingBranch(q) ==
    (/\ spc[q] = "idle"
     /\ spc'[q] # "idle"
     /\ req'[q].op = "register"
     /\ req'[q].algorithm = "secp256k1"
     /\ \E r \in device_registry :
           \/ r.public_key_id = req'[q].keyId
           \/ r.installation_id = req'[q].installation_id
           \/ r.device_fingerprint = req'[q].device_fingerprint)
    => /\ spc'[q] = "update"
       /\ local'[q].existing_device \in device_registry
       /\ \/ local'[q].existing_device.public_key_id = req'[q].keyId
          \/ local'[q].existing_device.installation_id = req'[q].installation_id
          \/ local'[q].existing_device.device_fingerprint = req'[q].device_fingerprint
       /\ device_registry' = device_registry

\* The "already registered" branch answers 201 with the existing row's id and
\* key id, sets that row's last_activity to now and changes nothing else: the
\* number of rows is the same before and after.
ExistingBranchIsIdempotent(q) ==
    (spc[q] = "update" /\ spc'[q] # "update") =>
        LET e == local[q].existing_device IN
        /\ spc'[q] = "done"
        /\ AlreadyRegistered(response'[q])
        /\ response'[q].device_id = e.id
        /\ response'[q].public_key_id = e.public_key_id
        /\ Cardinality(device_registry') = Cardinality(device_registry)
        /\ \A r \in device_registry :
              IF r.id = e.id
              THEN [r EXCEPT !.last_activity = clock] \in device_registry'
              ELSE r \in device_registry'

C7_OneAuditEntryPerCall ==
    /\ Len(verification_logs) >= Cardinality({q \in SecProcs : IsVerify(q) /\ Returned(q)})
    /\ Len(verification_logs) <= Cardinality({q \in SecProcs : IsVerify(q)})

\* ------------------------------------------------------------------- C8
\* The reasons each stage gives when it does not pass.
StageReasons ==
    [signature_format |-> {"Invalid signature encoding", "Invalid signature length"},
     public_key_format |-> {"Invalid public key encoding", "Invalid public key length",
                            "Invalid compressed public key format"},
     hash_format |-> {"Invalid hash length", "Invalid hash format"},
     timestamp_valid |-> {"Invalid timestamp format",
                          "Signature timestamp too old (replay attack protection)"},
     signature_verified |-> {"Cryptographic verification failed",
                             "Signature verification failed"}]

\* The stages of a verdict's map, in the order they run.
StageOrder ==
    <<"signature_format", "public_key_format", "hash_format", "timestamp_valid",
      "signature_verified">>

\* A stage marked passed implies every earlier stage is marked passed.
PassedImpliesEarlierPassed(v) ==
    \A a, b \in 1..Len(StageOrder) :
        (a < b /\ v.security_checks[StageOrder[b]]) => v.security_checks[StageOrder[a]]

\* The reason of a failed verdict is one of the first stage that did not pass.
ReasonOfFirstFailedStage(v) ==
    ~v.valid =>
        \E a \in 1..Len(StageOrder) :
            /\ ~v.security_checks[StageOrder[a]]
            /\ \A b \in 1..(a - 1) : v.security_checks[StageOrder[b]]
            /\ v.error \in StageReasons[StageOrder[a]]

\* C8: the stages run in a fixed order and each runs only if all previous
\* stages passed: in every verdict a stage marked passed implies every
\* earlier stage is marked passed, and the failure reason is the reason of
\* the first stage that did not pass.
C8_StagesShortCircuitInOrder ==
    \A q \in SecProcs :
        HasVerdict(q) => PassedImpliesEarlierPassed(verdict(q)) /\ ReasonOfFirstFailedStage(verdict(q))

\* ------------------------------------------------------------------- C9
\* C9: in every verdict, valid is true if and only if the reason is None
\* and every stage of the map is marked passed; a verdict with valid = false
\* carries a reason.
C9_ValidIffAllStagesPassed ==
    \A q \in SecProcs :
        HasVerdict(q) =>
            /\ verdict(q).valid <=>
                  /\ verdict(q).error = NoError
                  /\ \A a \in 1..Len(StageOrder) : verdict(q).security_checks[StageOrder[a]]
            /\ ~verdict(q).valid => verdict(q).error # NoError

\* ------------------------------------------------------------------ C10
\* C10: the replay check fails closed: a verification whose timestamp is
\* unparsable or not supplied never yields a valid verdict, and is rejected
\* before the cryptographic verification: its verdict is invalid, with the
\* reason of the timestamp stage or of a stage before it.
C10_ReplayGuardFailsClosed ==
    \A q \in SecProcs :
        (HasVerdict(q) /\ req[q].timestamp.kind \in {"absent", "empty", "garbage"}) =>
            /\ ~verdict(q).valid
            /\ verdict(q).error \notin StageReasons.signature_verified

\* ------------------------------------------------------------------ C11
\* The verdict a verification call computes in this step, and its request.
VerdictComputed(q) ==
    /\ spc[q] = "verify"
    /\ spc'[q] # "verify"
    /\ "verification_result" \in DOMAIN local'[q]

\* For a timestamp the server can compare with its clock, on a request that
\* passed the format stages: the replay stage passes exactly when the
\* timestamp lies at most 300 seconds before or after now, and a timestamp
\* outside the window is rejected as too old.
WindowDecidesReplayStage(q) ==
    (/\ VerdictComputed(q)
     /\ req'[q].timestamp.kind = "naive"
     /\ local'[q].verification_result.security_checks.hash_format)
    => LET v == local'[q].verification_result
           d == clock - req'[q].timestamp.t
       IN  /\ v.security_checks.timestamp_valid <=> (d <= 300 /\ d >= 0 - 300)
           /\ ~v.security_checks.timestamp_valid =>
                 /\ ~v.valid
                 /\ v.error = "Signature timestamp too old (replay attack protection)"

UnknownKeyAnsweredAtLookup(q) ==
    (/\ spc[q] = "idle"
     /\ spc'[q] # "idle"
     /\ req'[q].op = "verify"
     /\ req'[q].signature.present
     /\ req'[q].public_key_id # None
     /\ \A r \in device_registry : r.public_key_id # req'[q].public_key_id)
    => /\ spc'[q] = "done"
       /\ response'[q].status = 404
       /\ local'[q] = NoLocal
       /\ device_registry' = device_registry
       /\ verification_logs' = verification_logs

\* A call answered 404 never holds a verdict.
NotFoundHasNoVerdict ==
    \A q \in SecProcs :
        (IsVerify(q) /\ Returned(q) /\ response[q].status = 404) => local[q] = NoLocal

\* C12: a verification call whose public_key_id matches no record is
\* answered "not found", and no signature decode, digest decode, replay
\* check or cryptographic check is attempted for it.
C12_UnknownKeyStopsAtLookup ==
    /\ []NotFoundHasNoVerdict
    /\ [][\A q \in SecProcs : UnknownKeyAnsweredAtLookup(q)]_vars

\* A call with a well-formed signature was answered 404 while the registry
\* held a device with another key id.
C12_Witness ==
    \E q \in SecProcs :
        /\ IsVerify(q)
        /\ Returned(q)
        /\ response[q].status = 404
        /\ req[q].signature.b64ok
        /\ req[q].signature.len = 64
        /\ device_registry # {}

\* ------------------------------------------------------------------ C13
\* A call of the verifier on its own has returned.
Called(q) == req[q].op = "call" /\ spc[q] = "done"

\* What the three decoders accept.
SignatureAccepted(w) == w.b64ok /\ w.len = 64
PublicKeyAccepted(w) == w.b64ok /\ w.len = 33 /\ w.first \in {2, 3}
DigestAccepted(h) == h.len = 128 /\ h.hex

\* The format stages of a verdict say which decoders accepted their input
\* (a stage is reached only if the ones before it passed), and an input a
\* decoder rejects gives an invalid verdict with that decoder's reason.
DecodersDecideFormatStages(q) ==
    LET v == verdict(q)
        c == v.security_checks
    IN  /\ c.signature_format <=> SignatureAccepted(req[q].signature)
        /\ c.public_key_format <=> (c.signature_format /\ PublicKeyAccepted(req[q].public_key))
        /\ c.hash_format <=> (c.public_key_format /\ DigestAccepted(req[q].data_hash))
        /\ ~c.signature_format =>
              ~v.valid /\ v.error \in StageReasons.signature_format
        /\ (c.signature_format /\ ~c.public_key_format) =>
              ~v.valid /\ v.error \in StageReasons.public_key_format
        /\ (c.public_key_format /\ ~c.hash_format) =>
              ~v.valid /\ v.error \in StageReasons.hash_format
        /\ (~c.signature_format /\ req[q].signature.b64ok) =>
              v.error = "Invalid signature length"
        /\ (c.signature_format /\ req[q].public_key.b64ok /\ req[q].public_key.len # 33) =>
              v.error = "Invalid public key length"
        /\ (c.signature_format /\ req[q].public_key.b64ok /\ req[q].public_key.len = 33
               /\ ~c.public_key_format) =>
              v.error = "Invalid compressed public key format"
        /\ (c.public_key_format /\ req[q].data_hash.len # 128) =>
              v.error = "Invalid hash length"

\* C13: the key decoder rejects any byte string whose length is not 33 or
\* whose first byte is not 0x02 or 0x03, the signature decoder rejects any
\* decoded length other than 64, the digest decoder rejects any hex string
\* whose length is not 128, and each accepts exactly the decodable inputs
\* these rules do not reject.
C13_DecodersAcceptExactly ==
    \A q \in SecProcs : Called(q) => DecodersDecideFormatStages(q)

\* One call passed all three decoders; another, with a 64-byte signature and
\* a 33-byte key that starts with 0x04, was rejected for the key's format.
C13_Witness ==
    \E q, o \in SecProcs :
        /\ Called(q) /\ Called(o)
        /\ verdict(q).security_checks.hash_format
        /\ req[o].public_key.len = 33
        /\ req[o].public_key.first = 4
        /\ verdict(o).security_checks.signature_format
        /\ verdict(o).error = "Invalid compressed public key format"

\* ------------------------------------------------------------------ C14
\* The step in which a verification call reached the cryptographic stage
\* (format stages passed, replay stage passed or not entered, coincurve
\* imported) and the library raised.
PrimitiveRaised(q) ==
    /\ VerdictComputed(q)
    /\ req'[q].op = "verify"
    /\ SECP256K1_AVAILABLE
    /\ req'[q].primitive = "raise"
    /\ local'[q].verification_result.security_checks.hash_format
    /\ \/ local'[q].verification_result.security_checks.timestamp_valid
       \/ req'[q].timestamp.kind \in {"absent", "empty"}

\* Such a call gets an invalid verdict with the cryptographic stage's reason,
\* one audit entry recording the failure, and the ordinary answer
\* (HTTP 200, signature_valid false) instead of an error.
RaiseBecomesFailedVerdict(q) ==
    PrimitiveRaised(q) =>
        LET v == local'[q].verification_result IN
        /\ ~v.valid
        /\ v.error = "Cryptographic verification failed"
        /\ ~v.security_checks.signature_verified
        /\ Len(verification_logs') = Len(verification_logs) + 1
        /\ ~verification_logs'[Len(verification_logs')].signature_valid
        /\ verification_logs'[Len(verification_logs')].public_key_id = req'[q].public_key_id
        /\ spc'[q] = "done"
        /\ response'[q].status = 200
        /\ ~response'[q].signature_valid
        /\ response'[q].error_details = v.error

\* C14: an exception raised by the secp256k1 primitive during the
\* cryptographic verification, after all format checks passed, results in a
\* verdict with valid = false and a reason; it is not propagated to the
\* caller as an exception, and the call still reaches audit logging.
C14_PrimitiveExceptionIsVerdict ==
    [][\A q \in SecProcs : RaiseBecomesFailedVerdict(q)]_vars

\* A call whose signature and key passed the format stages and whose
\* timestamp was fresh returned a failed verdict because the library raised,
\* and the audit log holds its entry.
C14_Witness ==
    \E q \in SecProcs :
        /\ IsVerify(q)
        /\ Returned(q)
        /\ HasVerdict(q)
        /\ req[q].primitive = "raise"
        /\ verdict(q).security_checks.timestamp_valid
        /\ verdict(q).error = "Cryptographic verification failed"
        /\ response[q].status = 200
        /\ \E n \in 1..Len(verification_logs) :
              /\ verification_logs[n].public_key_id = req[q].public_key_id
              /\ ~verification_logs[n].signature_valid

\* ------------------------------------------------------------------ C15
\* A verdict for which the cryptographic stage was reached: the format
\* stages and the replay stage passed.
ReachedCrypto(q) ==
    /\ HasVerdict(q)
    /\ verdict(q).security_checks.hash_format
    /\ verdict(q).security_checks.timestamp_valid

\* C15: a signature made over the digest with the matching private key
\* verifies (valid = true), and a signature that does not match, such as one
\* with a byte replaced, gives valid = false with the reason of a signature
\* mismatch.  req[q].primitive is what ECDSA verification makes of the
\* decoded signature, digest and key.
C15_SignatureDecidesVerdict ==
    \A q \in SecProcs :
        ReachedCrypto(q) =>
            /\ req[q].primitive = "true" => verdict(q).valid
            /\ req[q].primitive = "false" =>
                  /\ ~verdict(q).valid
                  /\ verdict(q).error = "Signature verification failed"

\* ------------------------------------------------------------------ C16
\* C16: a verification call that ends in failure (a failing stage, or an
\* invalid signature reported by the verification service) never mutates a
\* device record: no step of a call whose verification is not valid changes
\* a row of geocam_devices or of device_registry.
C16_FailedVerificationMutatesNothing ==
    [][\A p \in Procs :
          (/\ result[p].kind = "verify_image"
           /\ pc[p] # pc'[p]
           /\ ~result'[p].valid)
          => /\ geocam_devices' = geocam_devices
             /\ device_registry' = device_registry]_vars

\* ------------------------------------------------------------------ C17
\* C17: storage unavailability is reported to the caller and never silently
\* swallowed by a registry or audit-log operation, a failed last_activity
\* bump excepted: a call during which the lookup, the listing or the audit
\* insert failed is answered with an error, not with a normal-looking
\* result.
C17_StorageFailureReported ==
    \A p \in Procs :
        (/\ Finished(p)
         /\ result[p].kind \in {"verify_image", "devices"}
         /\ result[p].faults \ {"activity"} # {})
        => result[p].status = 500

\* ------------------------------------------------------------------ C18
\* C18: a Register call that ends in an error did not complete at all: the
\* call that is answered with an error has committed no record, the step
\* that ends it leaves the table as it is, and no row of its transaction is
\* left behind.
C18_FailedRegisterLeavesNoTrace ==
    [][\A p \in Procs :
          (pc[p] # "done" /\ pc'[p] = "done" /\ result'[p].kind = "error")
          => /\ result[p].kind # "created"
             /\ geocam_devices' = geocam_devices
             /\ pending'[p] = {}]_vars


\* ------------------------------------------------------------------ C19
\* C19: with no administrative deletion the sequence values stored in the
\* registry are dense: in every reachable state they are exactly 1..n, where
\* n is the number of records.
C19_SequencesDense ==
    {r.geocam_sequence : r \in geocam_devices} = 1..Cardinality(geocam_devices)

\* Three calls created records, one of them after a retry, and a call failed.
C19_Witness ==
    /\ Cardinality(CreatedProcs) >= 3
    /\ \E p \in CreatedProcs : attempt[p] > 0
    /\ \E p \in Procs : Finished(p) /\ result[p].kind = "error"


\* ------------------------------------------------------------------ C20
\* C20: sequence assignment is strictly increasing over the registry's whole
\* history: the commit that creates a record gives it a sequence greater than
\* every sequence in the table and greater than every sequence an earlier
\* call was given, also after a deletion removed the record that held the
\* highest sequence.
C20_SequenceStrictlyIncreasing ==
    [][\A p \in Procs :
          (pc[p] = "commit" /\ pc'[p] = "fetch")
          => \A r \in geocam_devices' \ geocam_devices :
                /\ \A s \in geocam_devices : r.geocam_sequence > s.geocam_sequence
                /\ \A q \in CreatedProcs : r.geocam_sequence > geocam_sequence[q]]_vars


\* ------------------------------------------------------------------ C21
IsPrefix(s, t) == Len(s) <= Len(t) /\ SubSeq(t, 1, Len(s)) = s

\* C21: the audit log is append-only: no step of the system modifies or
\* removes an entry, so the log after a step has the log before it as a
\* prefix, in verification_history as in verification_logs.
C21_AuditLogAppendOnly ==
    [][/\ IsPrefix(verification_history, verification_history')
       /\ IsPrefix(verification_logs, verification_logs')]_vars



\* ------------------------------------------------------------------ C22
IsStats(q) == req[q].op = "stats"

\* secure_backend.py: no step of a statistics request changes the log or the
\* registry, and a request during which no attempt was logged answers with
\* the counts of the log.
SecureStatsAggregates ==
    \A q \in SecProcs :
        (spc[q] \in {"stats_valid", "stats_recent", "stats_active"} \/ spc'[q] = "stats_valid")
        => /\ spc'[q] # spc[q]
              => /\ verification_logs' = verification_logs
                 /\ device_registry' = device_registry
           /\ (spc'[q] = "done" /\ local[q].total_verifications = Len(verification_logs))
              => LET stats == response'[q].stats IN
                 /\ stats.total_verifications = Len(verification_logs)
                 /\ stats.valid_verifications =
                       Cardinality({n \in 1..Len(verification_logs) :
                                       verification_logs[n].signature_valid})
                 /\ stats.invalid_verifications =
                       stats.total_verifications - stats.valid_verifications

\* app.py: the same of the answer to /api/verification-stats and the rows of
\* verification_history.
AppStatsAggregates ==
    \A p \in Procs :
        (pc[p] = "idle" /\ pc'[p] = "done" /\ result'[p].kind = "stats"
            /\ result'[p].status = 200)
        => LET stats == result'[p].stats IN
           /\ verification_history' = verification_history
           /\ geocam_devices' = geocam_devices
           /\ stats.total_verifications = Len(verification_history)
           /\ stats.valid_verifications =
                 Cardinality({n \in 1..Len(verification_history) :
                                 verification_history[n].verification_result})
           /\ stats.invalid_verifications =
                 stats.total_verifications - stats.valid_verifications

SecureStatsIsPureAggregate == [][SecureStatsAggregates]_vars

\* C22: Stats is a pure aggregate read over the audit log: it changes neither
\* the log nor the registry, total is the number of entries of the log, valid
\* the number of entries whose verdict is true, invalid is total - valid.
C22_StatsIsPureAggregate == [][SecureStatsAggregates /\ AppStatsAggregates]_vars


\* ------------------------------------------------------------------ C23
\* C23: success_rate is the fraction valid / total rounded to a fixed
\* precision when total > 0, and 0 when the log is empty: the answered value
\* (success_rate hundredths) is within half a hundredth of valid / total.
C23_SuccessRateIsFraction ==
    \A q \in SecProcs :
        (IsStats(q) /\ Returned(q))
        => LET stats == response[q].stats
               diff == 2 * stats.success_rate * stats.total_verifications
                          - 200 * stats.valid_verifications
           IN  IF stats.total_verifications > 0
               THEN Abs(diff) <= stats.total_verifications
               ELSE stats.success_rate = 0


\* ------------------------------------------------------------------ C24
\* The list holds every row of the table exactly once.
ListsEachOnce(devices, table) ==
    /\ Len(devices) = Cardinality(table)
    /\ {devices[n] : n \in 1..Len(devices)} = table

\* app.py /api/devices, answered from a database that is up: every row once,
\* by geocam_sequence ascending.
PostgresListOrdered ==
    \A p \in Procs :
        (pc[p] = "idle" /\ pc'[p] = "done" /\ result'[p].kind = "devices"
            /\ result'[p].faults = {})
        => LET devices == result'[p].devices IN
           /\ ListsEachOnce(devices, geocam_devices)
           /\ \A a, b \in 1..Len(devices) :
                 a < b => devices[a].geocam_sequence < devices[b].geocam_sequence

\* secure_backend.py /api/devices-secure: every row once, in the order the
\* rows were created (device_registry has no sequence column; id numbers the
\* rows in the order of their creation).
SecureListOrdered ==
    \A q \in SecProcs :
        (spc[q] = "idle" /\ spc'[q] = "done" /\ req'[q].op = "devices")
        => LET devices == response'[q].devices IN
           /\ ListsEachOnce(devices, device_registry)
           /\ \A a, b \in 1..Len(devices) : a < b => devices[a].id < devices[b].id

PostgresListAllOrdered == [][PostgresListOrdered]_vars

\* C24: ListAll returns every record of the registry exactly once, ordered by
\* sequence ascending, in every reachable registry state.
C24_ListAllOrderedBySequence == [][PostgresListOrdered /\ SecureListOrdered]_vars


\* ------------------------------------------------------------------ C25
\* C25: an INSERT that fails with an error other than a uniqueness violation
\* on geocam_sequence (here: a uniqueness violation on installation_id) ends
\* the call at once with that error and no further INSERT; only a uniqueness
\* violation on geocam_sequence enters the retry loop.
C25_OnlySequenceViolationRetried ==
    [][\A p \in Procs :
          (pc[p] = "insert" /\ pc'[p] # "insert")
          => /\ InstallationIdTaken(geocam_devices, inst[p])
                => /\ pc'[p] = "done"
                   /\ result'[p] = [kind |-> "error", on |-> "installation_id"]
             /\ pc'[p] \in {"conflict", "conflict_installation_id"}
                => /\ ~InstallationIdTaken(geocam_devices, inst[p])
                   /\ SequenceTaken(geocam_devices, geocam_sequence[p])]_vars


C27_ActivityFailureNotSurfaced ==
    [][\A q \in SecProcs :
          (spc[q] = "activity" /\ spc'[q] = "done")
          => /\ response'[q].status = 200
             /\ response'[q].signature_valid
             /\ response'[q].security_checks = verdict(q).security_checks
             /\ DOMAIN response'[q] = {"status", "signature_valid", "security_checks"}
             /\ verification_logs' = verification_logs
             /\ \E n \in 1..Len(verification_logs) :
                   /\ verification_logs[n].public_key_id = req[q].public_key_id
                   /\ verification_logs[n].signature_valid]_vars

\* No request is under way, a verification was answered valid and its
\* device's last_activity is older than the logged attempt: the update after
\* it failed.
C27_Witness ==
    \E q \in SecProcs :
        /\ \A o \in SecProcs : spc[o] \in {"idle", "done"}
        /\ IsVerify(q) /\ Returned(q)
        /\ response[q].status = 200
        /\ response[q].signature_valid
        /\ \E r \in device_registry : \E n \in 1..Len(verification_logs) :
              /\ r.public_key_id = req[q].public_key_id
              /\ verification_logs[n].public_key_id = req[q].public_key_id
              /\ verification_logs[n].signature_valid
              /\ r.last_activity < verification_logs[n].verification_timestamp


\* ------------------------------------------------------------------ C28
\* C28: two registrations of the same installation_id that both pass the
\* existence check before either inserts leave exactly one record of that
\* installation_id, and both are answered with that record's identity and
\* sequence, neither with an error.  (A request has passed the existence
\* check when it has computed a sequence.)
C28_ConcurrentSameIdBothSucceed ==
    \A p, q \in Procs :
        (/\ p # q
         /\ inst[p] = inst[q]
         /\ Finished(p) /\ Finished(q)
         /\ geocam_sequence[p] # None /\ geocam_sequence[q] # None)
        => /\ Cardinality(get_device_by_installation_id(geocam_devices, inst[p])) = 1
           /\ Succeeded(p) /\ Succeeded(q)
           /\ result[p].id = result[q].id
           /\ result[p].geocam_sequence = result[q].geocam_sequence


\* ------------------------------------------------------------------ C29
\* C29: device_fingerprint detects duplicates under concurrency too: whatever
\* the interleaving of registrations, the registry never holds two records
\* with the same device_fingerprint.
C29_FingerprintNeverDuplicated ==
    \A r, o \in device_registry : r.device_fingerprint = o.device_fingerprint => r = o


\* ------------------------------------------------------------------ C30
\* C30: every record accepted by a registration holds a public key the
\* decoder accepts (33 bytes, the first 0x02 or 0x03), so no verification of a
\* registered device fails at the decoding of the stored key.
C30_StoredKeysDecode ==
    /\ \A r \in device_registry : PublicKeyAccepted(r.public_key_base64)
    /\ \A q \in SecProcs :
          HasVerdict(q) => verdict(q).error \notin StageReasons.public_key_format

====
